---- MODULE Spec2Model ----
(***************************************************************************)
(* Model of crav-components: the CrossSell recommendation ranking          *)
(* (components/CrossSell), and the network wrapper functions of            *)
(* central-payments and central-ops.                                       *)
(*                                                                         *)
(* Ratings are decimal numbers with one fractional digit in the source;    *)
(* they are modelled in tenths (4.8 is 48).  An optional field of a        *)
(* product is a field the record does not have.                            *)
(***************************************************************************)
EXTENDS Integers, Sequences, FiniteSets, TLC

VARIABLES
    catalog,          \* PRODUCTS, the list the effect reads
    currentApp,       \* props of CrossSell (after destructuring defaults)
    category,
    tags,
    maxItems,
    tagsOmitted,      \* the parent passes no tags prop (the default [] applies)
    tagsFresh,        \* the tags array of the last render is another object
                      \* than the one the dependency array holds
    renderPending,    \* a state update has scheduled a render of CrossSell
    deps,             \* dependency array of the last run of the effect
    sorted,           \* the local array "scored"/"sorted" of the last run
    recommendations,  \* useState<Product[]>
    fn,               \* network wrapper being called
    netpc,            \* position of that call
    body,             \* body of the response the fetch resolved with
    failure,          \* which step of the call failed, if any
    result,           \* value the wrapper's promise settled with
    href,             \* window.location.href
    isOpen,           \* JavariChat state
    messages,
    input,
    isLoading,
    requests,         \* the chat requests in flight, each an activation of
                      \* sendMessage waiting at an await
    sendTick,         \* flips whenever sendMessage is invoked
    opsPc,            \* position of a call of central-ops reportError
    opsError,         \* kind of the value reported
    opsSeverity,      \* options.severity
    opsAutoTicket,    \* options.autoTicket
    opsRequests,      \* requests the call has posted, in order
    opsResult,        \* how the promise of reportError settled
    opsBody,          \* body of the response to the ticket request
    authPc,           \* position of each client in updateUserProfile
    authSeen,         \* apps_used each client read
    authCalls,        \* calls each client has made
    profileApps,      \* apps_used of the stored profile
    lastActiveApp,    \* last_active_app of the stored profile
    errPc,            \* position of a call of error-handler reportError
    errDetails,       \* errorDetails and the priority computed from it
    errRequests,      \* requests the call has posted, in order
    errBody,          \* body of the response of the tickets endpoint
    errCaught,        \* the step whose failure reached the catch, if any
    errResult,        \* how the promise of reportError settled
    chkFn,            \* the check called: hasEnoughCredits or hasActiveSubscription
    chkPc,            \* position of the call
    chkRequired,      \* the argument required
    chkBody,          \* body of the response
    chkFailure,       \* "transport" when the fetch rejected
    chkResult         \* how the promise of the check settled

rankVars == <<catalog, currentApp, category, tags, maxItems, tagsOmitted,
              tagsFresh, renderPending, deps, sorted, recommendations>>
netVars == <<fn, netpc, body, failure, result, href>>
vars == <<catalog, currentApp, category, tags, maxItems, tagsOmitted,
          tagsFresh, renderPending, deps, sorted, recommendations,
          fn, netpc, body, failure, result, href,
          isOpen, messages, input, isLoading, requests, sendTick,
          opsPc, opsError, opsSeverity, opsAutoTicket, opsRequests, opsResult,
          opsBody, authPc, authSeen, authCalls, profileApps, lastActiveApp,
          errPc, errDetails, errRequests, errBody, errCaught, errResult,
          chkFn, chkPc, chkRequired, chkBody, chkFailure, chkResult>>
chkVars == <<chkFn, chkPc, chkRequired, chkBody, chkFailure, chkResult>>
errVars == <<errPc, errDetails, errRequests, errBody, errCaught, errResult>>
authVars == <<authPc, authSeen, authCalls, profileApps, lastActiveApp>>
opsVars == <<opsPc, opsError, opsSeverity, opsAutoTicket, opsRequests,
             opsResult, opsBody>>
chatVars == <<isOpen, messages, input, isLoading, requests, sendTick>>

\* The variables an action of one component leaves alone.
notRank == <<netVars, chatVars, opsVars, authVars, errVars,
            chkVars>>
notNet == <<rankVars, chatVars, opsVars, authVars, errVars,
            chkVars>>
notChat == <<rankVars, netVars, opsVars, authVars, errVars,
            chkVars>>
notOps == <<rankVars, netVars, chatVars, authVars, errVars,
            chkVars>>
notAuth == <<rankVars, netVars, chatVars, opsVars, errVars,
            chkVars>>
notErr == <<rankVars, netVars, chatVars, opsVars, authVars, chkVars>>
notChk == <<rankVars, netVars, chatVars, opsVars, authVars, errVars>>

----------------------------------------------------------------------------
(* Bounds *)

MaxCatalog == 3     \* longest catalog drawn from the product pool
MaxTags == 2        \* longest requested tag list
MaxItems == 3       \* largest maxItems prop (3 is the default)
NegItems == 1       \* maxItems ranges down to -NegItems
MaxMessages == 5    \* longest transcript a message is still accepted into

----------------------------------------------------------------------------
(* Values *)

Undefined == "undefined"      \* an omitted optional prop

RatingBoost == 48             \* rating >= 4.8, in tenths

Range(s) == {s[i] : i \in DOMAIN s}

Has(r, f) == f \in DOMAIN r

\* const PRODUCTS: the fields the ranking reads (id, category, tags, rating,
\* isNew); name, description, icon, url and isFree are display data.
PRODUCTS ==
    << [id |-> "javari", category |-> "ai",
        tags |-> <<"ai", "assistant", "chat">>, rating |-> 49, isNew |-> TRUE],
       [id |-> "market-oracle", category |-> "finance",
        tags |-> <<"stocks", "investing", "ai", "analysis">>, rating |-> 48],
       [id |-> "pdf-builder", category |-> "productivity",
        tags |-> <<"pdf", "documents", "business">>, rating |-> 47],
       [id |-> "invoice-generator", category |-> "business",
        tags |-> <<"invoices", "business", "billing">>, rating |-> 48],
       [id |-> "logo-studio", category |-> "design",
        tags |-> <<"logo", "design", "branding", "ai">>],
       [id |-> "social-graphics", category |-> "marketing",
        tags |-> <<"social", "marketing", "graphics">>],
       [id |-> "ebook-creator", category |-> "publishing",
        tags |-> <<"ebook", "writing", "publishing">>],
       [id |-> "scrapbook", category |-> "creative",
        tags |-> <<"photos", "memories", "creative">>],
       [id |-> "cravbarrels", category |-> "lifestyle",
        tags |-> <<"bourbon", "whiskey", "collection">>],
       [id |-> "cardverse", category |-> "marketplace",
        tags |-> <<"cards", "trading", "collectibles">>],
       [id |-> "orlando-deals", category |-> "travel",
        tags |-> <<"travel", "disney", "orlando", "vacation">>],
       [id |-> "games", category |-> "entertainment",
        tags |-> <<"games", "free", "entertainment">>] >>

\* Other values of the Product interface, for catalogs other than PRODUCTS.
ProductA == [id |-> "A", category |-> "ai", tags |-> <<>>, rating |-> 49,
             isNew |-> TRUE]
ProductB == [id |-> "B", category |-> "finance", tags |-> <<>>, rating |-> 48]
ProductC == [id |-> "C", category |-> "ai", tags |-> <<"chat">>]
ProductD == [id |-> "D", category |-> "finance", tags |-> <<"chat", "ai">>,
             rating |-> 47, isNew |-> FALSE]

ProductPool == {ProductA, ProductB, ProductC, ProductD}

RECURSIVE SeqsOver(_, _)
\* The sequences of length at most n over the set S.
SeqsOver(S, n) ==
    IF n = 0 THEN {<<>>}
    ELSE LET shorter == SeqsOver(S, n - 1)
         IN  shorter \cup {Append(s, x) : s \in shorter, x \in S}

DistinctIds(c) == \A i, j \in DOMAIN c : c[i].id = c[j].id => i = j

Catalogs ==
    {PRODUCTS} \cup {c \in SeqsOver(ProductPool, MaxCatalog) : DistinctIds(c)}

CurrentApps == {Undefined, "A", "javari"}
\* A category prop may be omitted or empty (both falsy in "category &&");
\* the category of a product is a non-empty label.
Categories == {Undefined, "", "ai", "finance"}
TagLists == SeqsOver({"chat", "ai"}, MaxTags)
ItemCounts == (0 - NegItems) .. MaxItems

----------------------------------------------------------------------------
(* The effect of CrossSell *)

\* Mutant of Filtered: the filter is left out.
FilteredNothing(products, app) == products

\* PRODUCTS.filter(p => p.id !== currentApp)
Filtered(products, app) ==
    SelectSeq(products, LAMBDA p : p.id # app)

RECURSIVE TagScore(_, _)
\* tags.forEach(tag => { if (product.tags.includes(tag)) score += 2 })
TagScore(product, tgs) ==
    IF tgs = <<>> THEN 0
    ELSE (IF Head(tgs) \in Range(product.tags) THEN 2 ELSE 0)
         + TagScore(product, Tail(tgs))

\* Mutant of Score: a requested tag counts once however often it is
\* requested.
ScoreTagsOnce(product, cat, tgs) ==
    (IF cat # Undefined /\ cat # "" /\ product.category = cat THEN 3 ELSE 0)
    + 2 * Cardinality(Range(tgs) \cap Range(product.tags))
    + (IF Has(product, "isNew") /\ product.isNew THEN 1 ELSE 0)
    + (IF Has(product, "rating") /\ product.rating # 0
          /\ product.rating >= RatingBoost THEN 1 ELSE 0)

\* Mutant of Score: the boost of new products is left out.
ScoreNoNewBoost(product, cat, tgs) ==
    (IF cat # Undefined /\ cat # "" /\ product.category = cat THEN 3 ELSE 0)
    + TagScore(product, tgs)
    + (IF Has(product, "rating") /\ product.rating # 0
          /\ product.rating >= RatingBoost THEN 1 ELSE 0)

\* Mutant of Score: a tag match assigns 2 to the score ("=" for "+=").
ScoreTagAssigns(product, cat, tgs) ==
    (IF TagScore(product, tgs) > 0 THEN 2
     ELSE IF cat # Undefined /\ cat # "" /\ product.category = cat THEN 3
     ELSE 0)
    + (IF Has(product, "isNew") /\ product.isNew THEN 1 ELSE 0)
    + (IF Has(product, "rating") /\ product.rating # 0
          /\ product.rating >= RatingBoost THEN 1 ELSE 0)

\* The score the map callback computes for one product.
Score(product, cat, tgs) ==
    (IF cat # Undefined /\ cat # "" /\ product.category = cat THEN 3 ELSE 0)
    + TagScore(product, tgs)
    + (IF Has(product, "isNew") /\ product.isNew THEN 1 ELSE 0)
    + (IF Has(product, "rating") /\ product.rating # 0
          /\ product.rating >= RatingBoost THEN 1 ELSE 0)

\* Mutant of Scored: products of score 0 are dropped.
ScoredRelevant(products, cat, tgs) ==
    SelectSeq([i \in DOMAIN products |->
                  [score |-> Score(products[i], cat, tgs)] @@ products[i]],
              LAMBDA e : e.score > 0)

\* { ...product, score }
Scored(products, cat, tgs) ==
    [i \in DOMAIN products |->
        [score |-> Score(products[i], cat, tgs)] @@ products[i]]

\* Mutant of Compare: ascending order.
CompareAscending(a, b) == a.score - b.score

\* (a, b) => b.score - a.score
Compare(a, b) == b.score - a.score

RECURSIVE InsertUnstable(_, _)
\* Mutant of Insert: x is placed before the elements of equal score.
InsertUnstable(x, s) ==
    IF s = <<>> THEN <<x>>
    ELSE IF Compare(Head(s), x) >= 0 THEN <<x>> \o s
    ELSE <<Head(s)>> \o InsertUnstable(x, Tail(s))

RECURSIVE Insert(_, _)
\* Place x behind every element it does not have to precede.
Insert(x, s) ==
    IF s = <<>> THEN <<x>>
    ELSE IF Compare(Head(s), x) > 0 THEN <<x>> \o s
    ELSE <<Head(s)>> \o Insert(x, Tail(s))

RECURSIVE SortFrom(_, _)
SortFrom(s, acc) ==
    IF s = <<>> THEN acc ELSE SortFrom(Tail(s), Insert(Head(s), acc))

\* Array.prototype.sort with the comparator: a stable sort (ECMAScript 2019).
Sort(s) == SortFrom(s, <<>>)

\* Mutant of Slice: an end of 0 takes the default of 3 ("maxItems || 3").
SliceOrDefault(s, end) ==
    LET e == IF end = 0 THEN 3 ELSE end
        k == IF e < 0 THEN (IF Len(s) + e < 0 THEN 0 ELSE Len(s) + e)
             ELSE (IF e > Len(s) THEN Len(s) ELSE e)
    IN  SubSeq(s, 1, k)

\* Array.prototype.slice(0, end): a negative end counts from the end.
Slice(s, end) ==
    LET k == IF end < 0 THEN (IF Len(s) + end < 0 THEN 0 ELSE Len(s) + end)
             ELSE (IF end > Len(s) THEN Len(s) ELSE end)
    IN  SubSeq(s, 1, k)

CurrentDeps == <<currentApp, category, tags, maxItems>>

\* The effect is run after a render whose dependencies differ (Object.is)
\* from those of its last run, and after the first render.  The strings and
\* the number differ by value, the tags array by identity.
EffectPending == deps # CurrentDeps \/ tagsFresh

\* Mutant of CatalogAfterEffect: the score is assigned to the catalog's own
\* product objects ("product.score = score; return product").
CatalogScoredInPlace(products, s) ==
    [i \in DOMAIN products |->
        IF \E j \in DOMAIN s : s[j].id = products[i].id
        THEN s[CHOOSE j \in DOMAIN s : s[j].id = products[i].id]
        ELSE products[i]]

\* PRODUCTS after the effect has computed the sorted array s: filter and
\* map return new arrays, the spread copies each product, and sort reorders
\* the array map returned, so nothing writes to PRODUCTS or its elements.
CatalogAfterEffect(products, s) == products

\* Mutant of EffectOutput: the scored copies of the last run are kept and
\* their scores are added to.
EffectOutputAccumulated(products, app, cat, tgs) ==
    LET s == Scored(Filtered(products, app), cat, tgs)
        old(id) == IF \E j \in DOMAIN sorted : sorted[j].id = id
                   THEN sorted[CHOOSE j \in DOMAIN sorted : sorted[j].id = id].score
                   ELSE 0
    IN  Sort([i \in DOMAIN s |->
                 [score |-> s[i].score + old(s[i].id)] @@ s[i]])

\* The array "sorted" of one run of the effect.
EffectOutput(products, app, cat, tgs) ==
    Sort(Scored(Filtered(products, app), cat, tgs))

\* The effect; setRecommendations with a new array schedules a render.
RunEffect ==
    /\ EffectPending
    /\ LET s == EffectOutput(catalog, currentApp, category, tags)
       IN  /\ sorted' = s
           /\ recommendations' = Slice(s, maxItems)
           /\ catalog' = CatalogAfterEffect(catalog, s)
    /\ deps' = CurrentDeps
    /\ tagsFresh' = FALSE
    /\ renderPending' = TRUE
    /\ UNCHANGED <<currentApp, category, tags, maxItems, tagsOmitted>>
    /\ UNCHANGED notRank

\* "tags = []" in the parameter list: with the prop omitted every render
\* evaluates the default and gets a new array; a prop the parent did not
\* change is the same array as before.
DefaultedTagsFresh(omitted) == omitted

\* The render the state update scheduled; the props are those of the last
\* render.
Render ==
    /\ renderPending
    /\ ~EffectPending
    /\ renderPending' = FALSE
    /\ tagsFresh' = DefaultedTagsFresh(tagsOmitted)
    /\ UNCHANGED <<catalog, currentApp, category, tags, maxItems, tagsOmitted,
                   deps, sorted, recommendations>>
    /\ UNCHANGED notRank

\* The parent renders CrossSell with another prop.  The effect of the last
\* render has run before the next render starts.
SetCurrentApp ==
    /\ ~EffectPending
    /\ \E v \in CurrentApps \ {currentApp} : currentApp' = v
    /\ renderPending' = FALSE
    /\ tagsFresh' = DefaultedTagsFresh(tagsOmitted)
    /\ UNCHANGED <<catalog, category, tags, maxItems, tagsOmitted, deps,
                   sorted, recommendations>>
    /\ UNCHANGED notRank

SetCategory ==
    /\ ~EffectPending
    /\ \E v \in Categories \ {category} : category' = v
    /\ renderPending' = FALSE
    /\ tagsFresh' = DefaultedTagsFresh(tagsOmitted)
    /\ UNCHANGED <<catalog, currentApp, tags, maxItems, tagsOmitted, deps,
                   sorted, recommendations>>
    /\ UNCHANGED notRank

\* The parent passes a tags array (a new array, its contents may be those of
\* the last one) or omits the prop.
SetTags ==
    /\ ~EffectPending
    /\ \/ /\ tagsOmitted' = FALSE
          /\ \E v \in TagLists : tags' = v
       \/ /\ tagsOmitted' = TRUE
          /\ ~tagsOmitted
          /\ tags' = <<>>
    /\ renderPending' = FALSE
    /\ tagsFresh' = TRUE
    /\ UNCHANGED <<catalog, currentApp, category, maxItems, deps, sorted,
                   recommendations>>
    /\ UNCHANGED notRank

SetMaxItems ==
    /\ ~EffectPending
    /\ \E v \in ItemCounts \ {maxItems} : maxItems' = v
    /\ renderPending' = FALSE
    /\ tagsFresh' = DefaultedTagsFresh(tagsOmitted)
    /\ UNCHANGED <<catalog, currentApp, category, tags, tagsOmitted, deps,
                   sorted, recommendations>>
    /\ UNCHANGED notRank

InitRank ==
    /\ catalog \in Catalogs
    /\ currentApp \in CurrentApps
    /\ category \in Categories
    /\ tags \in TagLists
    /\ tagsOmitted \in BOOLEAN
    /\ tagsOmitted => tags = <<>>
    /\ maxItems \in ItemCounts
    /\ tagsFresh = FALSE
    /\ renderPending = FALSE
    /\ deps = <<>>
    /\ sorted = <<>>
    /\ recommendations = <<>>

InitNetIdle ==
    /\ fn = "none"
    /\ netpc = "idle"
    /\ body = [json |-> FALSE, none |-> TRUE]
    /\ failure = "none"
    /\ result = [state |-> "pending"]
    /\ href = "https://app"

----------------------------------------------------------------------------
(* The network wrappers of central-payments and central-ops *)

Wrappers ==
    {"createStripeCheckout", "getStripePortalUrl", "createPayPalOrder",
     "capturePayPalOrder", "getCreditsBalance", "spendCredits",
     "getCreditHistory", "getSubscription", "getProducts", "createTicket",
     "getUserTickets", "sendNotification", "getNotifications",
     "markNotificationRead"}

\* The value null.
JsNull == [null |-> TRUE]

NoBody == [json |-> FALSE, none |-> TRUE]

\* Bodies a response can carry: one that is not JSON, and JSON values.
ResponseBodies ==
    {[json |-> FALSE],
     [json |-> TRUE, value |-> JsNull],
     [json |-> TRUE, value |-> [url |-> "https://checkout"]],
     [json |-> TRUE, value |-> [error |-> "server"]],
     [json |-> TRUE, value |-> [success |-> TRUE]]}

Pending == [state |-> "pending"]
Fulfilled(v) == [state |-> "fulfilled", value |-> v]
Rejected(e) == [state |-> "rejected", reason |-> e]

\* The wrappers that await response.json() inside their try block; the
\* others return the promise of response.json() without awaiting it.
AwaitsJson(f) == f = "createStripeCheckout"

\* The value the catch block of wrapper f returns for the error e.
Fallback(f, e) ==
    CASE f = "getCreditsBalance" -> [error |-> e, balance |-> 0]
      [] f = "spendCredits" -> [success |-> FALSE, error |-> e]
      [] f = "getCreditHistory" -> [error |-> e, transactions |-> <<>>]
      [] f = "getSubscription" -> [error |-> e, tier |-> "free"]
      [] f = "getProducts" -> [error |-> e, products |-> <<>>]
      [] f = "getUserTickets" -> [error |-> e, tickets |-> <<>>]
      [] f = "getNotifications" -> [error |-> e, notifications |-> <<>>]
      [] OTHER -> [error |-> e]

\* A wrapper is called and issues its fetch.
Call ==
    /\ netpc \in {"idle", "settled"}
    /\ \E f \in Wrappers : fn' = f
    /\ netpc' = "fetch"
    /\ body' = NoBody
    /\ failure' = "none"
    /\ result' = Pending
    /\ UNCHANGED href
    /\ UNCHANGED notNet

\* The fetch rejects: the catch block returns the fallback.
FetchRejects ==
    /\ netpc = "fetch"
    /\ netpc' = "settled"
    /\ failure' = "transport"
    /\ result' = Fulfilled(Fallback(fn, "TypeError: Failed to fetch"))
    /\ UNCHANGED <<fn, body, href>>
    /\ UNCHANGED notNet

\* The fetch resolves with a response, and response.json() is called.
FetchResolves ==
    /\ netpc = "fetch"
    /\ netpc' = "json"
    /\ \E b \in ResponseBodies : body' = b
    /\ UNCHANGED <<fn, failure, result, href>>
    /\ UNCHANGED notNet

\* response.json() rejects: caught where it is awaited in the try block,
\* otherwise the rejection is that of the promise the wrapper returned.
JsonRejects ==
    /\ netpc = "json"
    /\ ~body.json
    /\ netpc' = "settled"
    /\ failure' = "parse"
    /\ result' = IF AwaitsJson(fn)
                 THEN Fulfilled(Fallback(fn, "SyntaxError"))
                 ELSE Rejected("SyntaxError")
    /\ UNCHANGED <<fn, body, href>>
    /\ UNCHANGED notNet

\* response.json() resolves with the parsed value.
JsonResolves ==
    /\ netpc = "json"
    /\ body.json
    /\ netpc' = "settled"
    /\ LET data == body.value
       IN  IF fn = "createStripeCheckout"
           THEN IF data = JsNull
                THEN \* data.url throws inside the try block
                     /\ result' = Fulfilled(Fallback(fn, "TypeError"))
                     /\ failure' = "data"
                     /\ UNCHANGED href
                ELSE /\ result' = Fulfilled(data)
                     /\ href' = IF Has(data, "url") THEN data.url ELSE href
                     /\ UNCHANGED failure
           ELSE /\ result' = Fulfilled(data)
                /\ UNCHANGED <<failure, href>>
    /\ UNCHANGED <<fn, body>>
    /\ UNCHANGED notNet

InitRankIdle ==
    /\ catalog = PRODUCTS
    /\ currentApp = Undefined
    /\ category = Undefined
    /\ tags = <<>>
    /\ tagsOmitted = TRUE
    /\ maxItems = 3
    /\ tagsFresh = FALSE
    /\ renderPending = FALSE
    /\ deps = <<>>
    /\ sorted = <<>>
    /\ recommendations = <<>>

----------------------------------------------------------------------------
(* JavariChat *)

Greeting == "Hi! I'm Javari"
CouldNotProcess == "I'm sorry, I couldn't process that"
TroubleConnecting == "I'm having trouble connecting"

\* Texts of the input field.
Inputs == {"", " ", "hi", " hi "}

\* String.prototype.trim
Trim(t) ==
    CASE t = " " -> ""
      [] t = " hi " -> "hi"
      [] OTHER -> t

\* Bodies of the response of the chat endpoint.
ChatBodies ==
    {[json |-> FALSE],
     [json |-> TRUE, value |-> JsNull],
     [json |-> TRUE, value |-> [response |-> "hello"]],
     [json |-> TRUE, value |-> [response |-> ""]],
     [json |-> TRUE, value |-> [error |-> "server"]]}

Message(r, c) == [role |-> r, content |-> c]

\* Mutant of SendRejected: the isLoading test is left out.
SendRejectedBlankOnly(text, loading) == Trim(text) = ""

\* if (!input.trim() || isLoading) return;
SendRejected(text, loading) == Trim(text) = "" \/ loading

\* Mutant of ReplyContent: only a missing response field takes the fallback
\* ("??" for "||").
ReplyContentIfMissing(data) ==
    IF Has(data, "response") THEN data.response ELSE CouldNotProcess

\* data.response || "I'm sorry, I couldn't process that. ..."
ReplyContent(data) ==
    IF Has(data, "response") /\ data.response # "" THEN data.response
    ELSE CouldNotProcess

\* Mutant of LoadingAfter: setIsLoading(false) stands at the end of the try
\* block instead of in a finally block.
LoadingAfterTryOnly(caught) == caught

\* finally { setIsLoading(false) }: isLoading after the try statement,
\* whether or not the catch block ran.
LoadingAfter(caught) == FALSE

RemoveAt(s, i) == SubSeq(s, 1, i - 1) \o SubSeq(s, i + 1, Len(s))

\* onClick of the launcher button
Open ==
    /\ ~isOpen
    /\ isOpen' = TRUE
    /\ UNCHANGED <<messages, input, isLoading, requests, sendTick>>
    /\ UNCHANGED notChat

\* onClick of the close button
Close ==
    /\ isOpen
    /\ isOpen' = FALSE
    /\ UNCHANGED <<messages, input, isLoading, requests, sendTick>>
    /\ UNCHANGED notChat

\* onChange of the input field.  The handlers of the panel are taken as
\* callable whenever the panel is rendered; the disabled attributes make
\* the browser call them in fewer states.
Type ==
    /\ isOpen
    /\ \E v \in Inputs \ {input} : input' = v
    /\ UNCHANGED <<isOpen, messages, isLoading, requests, sendTick>>
    /\ UNCHANGED notChat

\* sendMessage up to its first await.
SendMessage ==
    /\ isOpen
    /\ sendTick' = ~sendTick
    /\ IF SendRejected(input, isLoading) \/ Len(messages) >= MaxMessages
       THEN UNCHANGED <<messages, input, isLoading, requests>>
       ELSE /\ messages' = Append(messages, Message("user", Trim(input)))
            /\ input' = ""
            /\ isLoading' = TRUE
            /\ requests' = Append(requests, [stage |-> "fetch"])
    /\ UNCHANGED isOpen
    /\ UNCHANGED notChat

\* The fetch of a request rejects: catch, then finally.
ChatFetchRejects ==
    /\ \E i \in DOMAIN requests :
          /\ requests[i].stage = "fetch"
          /\ requests' = RemoveAt(requests, i)
    /\ messages' = Append(messages, Message("assistant", TroubleConnecting))
    /\ isLoading' = LoadingAfter(TRUE)
    /\ UNCHANGED <<isOpen, input, sendTick>>
    /\ UNCHANGED notChat

\* The fetch of a request resolves and response.json() is awaited.
ChatFetchResolves ==
    /\ \E i \in DOMAIN requests :
          /\ requests[i].stage = "fetch"
          /\ \E b \in ChatBodies :
                requests' = [requests EXCEPT ![i] = [stage |-> "json", body |-> b]]
    /\ UNCHANGED <<isOpen, messages, input, isLoading, sendTick>>
    /\ UNCHANGED notChat

\* response.json() rejects: catch, then finally.
ChatJsonRejects ==
    /\ \E i \in DOMAIN requests :
          /\ requests[i].stage = "json"
          /\ ~requests[i].body.json
          /\ requests' = RemoveAt(requests, i)
    /\ messages' = Append(messages, Message("assistant", TroubleConnecting))
    /\ isLoading' = LoadingAfter(TRUE)
    /\ UNCHANGED <<isOpen, input, sendTick>>
    /\ UNCHANGED notChat

\* response.json() resolves: the reply is appended; reading data.response
\* of null throws into the catch block.
ChatJsonResolves ==
    /\ \E i \in DOMAIN requests :
          /\ requests[i].stage = "json"
          /\ requests[i].body.json
          /\ requests' = RemoveAt(requests, i)
          /\ LET data == requests[i].body.value
             IN  IF data = JsNull
                 THEN /\ messages' = Append(messages,
                                        Message("assistant", TroubleConnecting))
                      /\ isLoading' = LoadingAfter(TRUE)
                 ELSE /\ messages' = Append(messages,
                                        Message("assistant", ReplyContent(data)))
                      /\ isLoading' = LoadingAfter(FALSE)
    /\ UNCHANGED <<isOpen, input, sendTick>>
    /\ UNCHANGED notChat

InitChat ==
    /\ isOpen = FALSE
    /\ messages = <<[role |-> "assistant", content |-> "Hi! I'm Javari"]>>
    /\ input = ""
    /\ isLoading = FALSE
    /\ requests = <<>>
    /\ sendTick = FALSE

----------------------------------------------------------------------------
(* reportError of central-ops *)

\* Kinds of the value reported: an Error, a string, and a value that is
\* neither and has no slice method (undefined, a number, a plain object),
\* which the reason of an unhandled rejection can be.
ErrorKinds == {"Error", "string", "other"}

Severities == {Undefined, "low", "medium", "high", "critical"}

\* options.autoTicket: omitted, true or false.
AutoTickets == {Undefined, "true", "false"}

\* errorDetails.message is a string: error.message of an Error, or the
\* string reported.
MessageIsString(kind) == kind \in {"Error", "string"}

\* options?.autoTicket !== false &&
\*   (options?.severity === 'high' || options?.severity === 'critical')
TicketWanted(sev, auto) == auto # "false" /\ sev \in {"high", "critical"}

\* options.severity === 'critical' ? 'urgent' : 'high'
TicketPriorityOf(sev) == IF sev = "critical" THEN "urgent" ELSE "high"

ActivityRequest == [endpoint |-> "/activity/log", action |-> "error"]

TicketRequest(sev) ==
    [endpoint |-> "/tickets", type |-> "bug", priority |-> TicketPriorityOf(sev)]

\* A caller reports an Error or a string: reportError up to the fetch of
\* logActivity.
OpsReportError ==
    /\ opsPc \in {"idle", "done"}
    /\ \E kind \in {"Error", "string"}, sev \in Severities, auto \in AutoTickets :
          /\ opsError' = kind
          /\ opsSeverity' = sev
          /\ opsAutoTicket' = auto
    /\ opsPc' = "log"
    /\ opsRequests' = <<ActivityRequest>>
    /\ opsResult' = "pending"
    /\ opsBody' = NoBody
    /\ UNCHANGED notOps

\* window.onerror: reportError(error || String(message), {severity: 'high',
\* autoTicket: true})
OpsOnError ==
    /\ opsPc \in {"idle", "done"}
    /\ \E kind \in {"Error", "string"} :
          /\ opsError' = kind
          /\ opsSeverity' = "high"
          /\ opsAutoTicket' = "true"
    /\ opsPc' = "log"
    /\ opsRequests' = <<ActivityRequest>>
    /\ opsResult' = "pending"
    /\ opsBody' = NoBody
    /\ UNCHANGED notOps

\* window.onunhandledrejection: reportError(event.reason, {severity: 'high',
\* autoTicket: true})
OpsOnUnhandledRejection ==
    /\ opsPc \in {"idle", "done"}
    /\ \E kind \in ErrorKinds :
          /\ opsError' = kind
          /\ opsSeverity' = "high"
          /\ opsAutoTicket' = "true"
    /\ opsPc' = "log"
    /\ opsRequests' = <<ActivityRequest>>
    /\ opsResult' = "pending"
    /\ opsBody' = NoBody
    /\ UNCHANGED notOps

\* The fetch of logActivity settles (a rejection is caught and logged);
\* reportError goes on to the ticket.  The subject of the ticket takes
\* errorDetails.message.slice(0, 100), which throws for a message that is
\* no string.
OpsLogSettles ==
    /\ opsPc = "log"
    /\ IF TicketWanted(opsSeverity, opsAutoTicket)
       THEN IF MessageIsString(opsError)
            THEN /\ opsPc' = "ticket"
                 /\ opsRequests' = Append(opsRequests, TicketRequest(opsSeverity))
                 /\ UNCHANGED opsResult
            ELSE /\ opsPc' = "done"
                 /\ opsResult' = "rejected"
                 /\ UNCHANGED opsRequests
       ELSE /\ opsPc' = "done"
            /\ opsResult' = "fulfilled"
            /\ UNCHANGED opsRequests
    /\ UNCHANGED <<opsError, opsSeverity, opsAutoTicket, opsBody>>
    /\ UNCHANGED notOps

\* The fetch of createTicket rejects: createTicket returns {error}.
OpsTicketFetchRejects ==
    /\ opsPc = "ticket"
    /\ opsPc' = "done"
    /\ opsResult' = "fulfilled"
    /\ UNCHANGED <<opsError, opsSeverity, opsAutoTicket, opsRequests, opsBody>>
    /\ UNCHANGED notOps

\* The fetch of createTicket resolves: createTicket returns response.json().
OpsTicketFetchResolves ==
    /\ opsPc = "ticket"
    /\ opsPc' = "json"
    /\ \E b \in ResponseBodies : opsBody' = b
    /\ UNCHANGED <<opsError, opsSeverity, opsAutoTicket, opsRequests, opsResult>>
    /\ UNCHANGED notOps

\* response.json() settles: its rejection is that of createTicket and so of
\* reportError.
OpsTicketJsonSettles ==
    /\ opsPc = "json"
    /\ opsPc' = "done"
    /\ opsResult' = IF opsBody.json THEN "fulfilled" ELSE "rejected"
    /\ UNCHANGED <<opsError, opsSeverity, opsAutoTicket, opsRequests, opsBody>>
    /\ UNCHANGED notOps

InitOps ==
    /\ opsPc = "idle"
    /\ opsError = "Error"
    /\ opsSeverity = Undefined
    /\ opsAutoTicket = Undefined
    /\ opsRequests = <<>>
    /\ opsResult = "pending"
    /\ opsBody = NoBody

----------------------------------------------------------------------------
(* updateUserProfile of central-auth *)

MaxCalls == 2

\* The clients, each a deployment with its own APP_ID.
AppIds == {"app1", "app2", "app3"}

\* The apps_used the upsert writes, given what the select returned: the
\* list read with APP_ID appended, or nothing when APP_ID is listed.
AppsToWrite(currentApps, appId) ==
    IF appId \in Range(currentApps)
    THEN [given |-> FALSE]
    ELSE [given |-> TRUE, value |-> Append(currentApps, appId)]

\* A column the upsert does not name keeps its stored value.
Upserted(stored, written) == IF written.given THEN written.value ELSE stored

\* updateUserProfile(userId, {}) is called: updates.apps_used is undefined
\* and the select is issued.
AuthCall(a) ==
    /\ authPc[a] = "idle"
    /\ authCalls[a] < MaxCalls
    /\ authPc' = [authPc EXCEPT ![a] = "select"]
    /\ authCalls' = [authCalls EXCEPT ![a] = @ + 1]
    /\ UNCHANGED <<authSeen, profileApps, lastActiveApp>>
    /\ UNCHANGED notAuth

\* The select returns: currentApps = profile?.apps_used || [].
AuthSelect(a) ==
    /\ authPc[a] = "select"
    /\ authPc' = [authPc EXCEPT ![a] = "upsert"]
    /\ authSeen' = [authSeen EXCEPT ![a] = profileApps]
    /\ UNCHANGED <<authCalls, profileApps, lastActiveApp>>
    /\ UNCHANGED notAuth

\* The upsert is applied and the call returns.
AuthUpsert(a) ==
    /\ authPc[a] = "upsert"
    /\ authPc' = [authPc EXCEPT ![a] = "idle"]
    /\ profileApps' = Upserted(profileApps, AppsToWrite(authSeen[a], a))
    /\ lastActiveApp' = a
    /\ authSeen' = [authSeen EXCEPT ![a] = <<>>]
    /\ UNCHANGED authCalls
    /\ UNCHANGED notAuth

InitAuth ==
    /\ authPc = [a \in AppIds |-> "idle"]
    /\ authSeen = [a \in AppIds |-> <<>>]
    /\ authCalls = [a \in AppIds |-> 0]
    /\ profileApps = <<>>
    /\ lastActiveApp = Undefined

----------------------------------------------------------------------------
(* reportError of error-handler *)

JsUndefined == [undefined |-> TRUE]

JsString(str) == [string |-> str]

\* Kinds of the value reported: an Error, another value, and a value that
\* String() cannot convert (it throws).
ReportedKinds == {"Error", "value", "unprintable"}

\* Messages, each as the set of the keywords it includes (of payment, auth,
\* credit, timeout and network).
Messages == {{}, {"payment"}, {"network"}, {"timeout", "credit"}}

UserIds == {Undefined, "u1"}

\* error instanceof Error ? error.name : 'Unknown Error'
ErrorName(kind) == IF kind = "Error" THEN "Error" ELSE "Unknown Error"

\* priority: 'critical' on payment, auth or credit, else 'high' on timeout
\* or network, else 'medium'.
PriorityOf(words) ==
    IF words \cap {"payment", "auth", "credit"} # {} THEN "critical"
    ELSE IF words \cap {"timeout", "network"} # {} THEN "high"
    ELSE "medium"

\* Bodies of the response of the tickets endpoint.
TicketBodies ==
    {[json |-> FALSE],
     [json |-> TRUE, value |-> JsNull],
     [json |-> TRUE, value |-> [error |-> "server"]],
     [json |-> TRUE, value |-> [ticketId |-> JsString("T-1")]],
     [json |-> TRUE, value |-> [ticketId |-> JsString("T-2"), status |-> "open"]]}

\* result.ticketId of a parsed body that is an object.
TicketIdOf(value) ==
    IF Has(value, "ticketId") THEN value.ticketId ELSE JsUndefined

\* How reportError settles when the step caughtAt threw or rejected inside
\* the try block ("none": no step did) and id is result.ticketId: the
\* fetch of the activity log is outside the try here.
SettledLogOutsideTry(caughtAt, id) ==
    IF caughtAt = "log" THEN Rejected("TypeError")
    ELSE IF caughtAt = "none" THEN Fulfilled(id)
    ELSE Fulfilled(JsNull)

\* How reportError settles: return result.ticketId, or null from the catch.
Settled(caughtAt, id) ==
    IF caughtAt = "none" THEN Fulfilled(id) ELSE Fulfilled(JsNull)

ErrTicketRequest(details) ==
    [endpoint |-> "/tickets", priority |-> details.priority,
     name |-> details.name, userId |-> details.userId]

ErrActivityRequest(details, id) ==
    [endpoint |-> "/activity/log", action |-> "error",
     userId |-> details.userId, ticketId |-> id]

\* reportError(error, context) up to the fetch of the ticket; String(error)
\* throwing is caught.
ErrReport ==
    /\ errPc \in {"idle", "done"}
    /\ \E kind \in ReportedKinds, words \in Messages, user \in UserIds :
          LET details == [name |-> ErrorName(kind), words |-> words,
                          userId |-> user, priority |-> PriorityOf(words)]
          IN  /\ errDetails' = details
              /\ IF kind = "unprintable"
                 THEN /\ errPc' = "done"
                      /\ errRequests' = <<>>
                      /\ errCaught' = "build"
                      /\ errResult' = Settled("build", JsUndefined)
                 ELSE /\ errPc' = "ticket"
                      /\ errRequests' = <<ErrTicketRequest(details)>>
                      /\ errCaught' = "none"
                      /\ errResult' = Pending
    /\ errBody' = NoBody
    /\ UNCHANGED notErr

\* The fetch of the ticket rejects.
ErrTicketFetchRejects ==
    /\ errPc = "ticket"
    /\ errPc' = "done"
    /\ errCaught' = "ticket"
    /\ errResult' = Settled("ticket", JsUndefined)
    /\ UNCHANGED <<errDetails, errRequests, errBody>>
    /\ UNCHANGED notErr

\* The fetch of the ticket resolves.
ErrTicketFetchResolves ==
    /\ errPc = "ticket"
    /\ errPc' = "json"
    /\ \E b \in TicketBodies : errBody' = b
    /\ UNCHANGED <<errDetails, errRequests, errCaught, errResult>>
    /\ UNCHANGED notErr

\* await response.json() settles, and the body of the activity log is
\* built from result.ticketId, which throws for a result of null; then the
\* activity log is posted.
ErrJsonSettles ==
    /\ errPc = "json"
    /\ IF ~errBody.json
       THEN /\ errPc' = "done"
            /\ errCaught' = "json"
            /\ errResult' = Settled("json", JsUndefined)
            /\ UNCHANGED errRequests
       ELSE IF errBody.value = JsNull
       THEN /\ errPc' = "done"
            /\ errCaught' = "ticketId"
            /\ errResult' = Settled("ticketId", JsUndefined)
            /\ UNCHANGED errRequests
       ELSE /\ errPc' = "log"
            /\ errRequests' =
                  Append(errRequests,
                         ErrActivityRequest(errDetails, TicketIdOf(errBody.value)))
            /\ UNCHANGED <<errCaught, errResult>>
    /\ UNCHANGED <<errDetails, errBody>>
    /\ UNCHANGED notErr

\* The fetch of the activity log rejects.
ErrLogFetchRejects ==
    /\ errPc = "log"
    /\ errPc' = "done"
    /\ errCaught' = "log"
    /\ errResult' = Settled("log", TicketIdOf(errBody.value))
    /\ UNCHANGED <<errDetails, errRequests, errBody>>
    /\ UNCHANGED notErr

\* The fetch of the activity log resolves: return result.ticketId.
ErrLogFetchResolves ==
    /\ errPc = "log"
    /\ errPc' = "done"
    /\ errResult' = Settled("none", TicketIdOf(errBody.value))
    /\ UNCHANGED <<errDetails, errRequests, errBody, errCaught>>
    /\ UNCHANGED notErr

InitErr ==
    /\ errPc = "idle"
    /\ errDetails = [name |-> "Error", words |-> {}, userId |-> Undefined,
                     priority |-> "medium"]
    /\ errRequests = <<>>
    /\ errBody = NoBody
    /\ errCaught = "none"
    /\ errResult = Pending

----------------------------------------------------------------------------
(* hasEnoughCredits and hasActiveSubscription *)

MaxBalance == 2

MaxRequired == 2

Checks == {"hasEnoughCredits", "hasActiveSubscription"}

\* The wrapper each check awaits.
WrapperOf(check) ==
    IF check = "hasEnoughCredits" THEN "getCreditsBalance" ELSE "getSubscription"

Requireds == (0 - MaxRequired) .. MaxRequired

JsBool(b) == [bool |-> b]

\* Bodies of the responses of the credits and subscriptions endpoints.
CheckBodies ==
    {[json |-> FALSE],
     [json |-> TRUE, value |-> JsNull],
     [json |-> TRUE, value |-> [error |-> "server"]]}
    \cup {[json |-> TRUE, value |-> [balance |-> n]] : n \in 0 .. MaxBalance}
    \cup {[json |-> TRUE, value |-> [tier |-> t]] : t \in {"free", "pro", ""}}

\* (balance || 0) > required
EnoughCreditsStrict(value, required) ==
    LET balance == IF Has(value, "balance") THEN value.balance ELSE 0
    IN  JsBool(balance > required)

\* const { balance } = value; return (balance || 0) >= required
EnoughCredits(value, required) ==
    LET balance == IF Has(value, "balance") THEN value.balance ELSE 0
    IN  JsBool(balance >= required)

\* const { tier } = value; return tier && tier !== 'free'
ActiveSubscription(value) ==
    IF ~Has(value, "tier") THEN JsUndefined
    ELSE IF value.tier = "" THEN JsString("")
    ELSE JsBool(value.tier # "free")

\* What the check returns for the value its wrapper resolved to.
CheckOf(check, value, required) ==
    IF check = "hasEnoughCredits" THEN EnoughCredits(value, required)
    ELSE ActiveSubscription(value)

Truthy(v) == v = JsBool(TRUE) \/ (Has(v, "string") /\ v.string # "")

\* A check is called; its wrapper issues the fetch.
ChkCall ==
    /\ chkPc \in {"idle", "done"}
    /\ \E c \in Checks :
          /\ chkFn' = c
          /\ IF c = "hasEnoughCredits"
             THEN \E r \in Requireds : chkRequired' = r
             ELSE chkRequired' = 0
    /\ chkPc' = "fetch"
    /\ chkBody' = NoBody
    /\ chkFailure' = "none"
    /\ chkResult' = Pending
    /\ UNCHANGED notChk

\* The fetch rejects: the wrapper returns its fallback, and the check
\* returns on it.
ChkFetchRejects ==
    /\ chkPc = "fetch"
    /\ chkPc' = "done"
    /\ chkFailure' = "transport"
    /\ chkResult' =
          Fulfilled(CheckOf(chkFn,
                            Fallback(WrapperOf(chkFn), "TypeError: Failed to fetch"),
                            chkRequired))
    /\ UNCHANGED <<chkFn, chkRequired, chkBody>>
    /\ UNCHANGED notChk

\* The fetch resolves: the wrapper returns response.json().
ChkFetchResolves ==
    /\ chkPc = "fetch"
    /\ chkPc' = "json"
    /\ \E b \in CheckBodies : chkBody' = b
    /\ UNCHANGED <<chkFn, chkRequired, chkFailure, chkResult>>
    /\ UNCHANGED notChk

\* response.json() settles: its rejection is that of the wrapper and of the
\* check; the destructuring of null throws; otherwise the check returns.
ChkJsonSettles ==
    /\ chkPc = "json"
    /\ chkPc' = "done"
    /\ chkResult' =
          IF ~chkBody.json THEN Rejected("SyntaxError")
          ELSE IF chkBody.value = JsNull THEN Rejected("TypeError")
          ELSE Fulfilled(CheckOf(chkFn, chkBody.value, chkRequired))
    /\ UNCHANGED <<chkFn, chkRequired, chkBody, chkFailure>>
    /\ UNCHANGED notChk

InitChk ==
    /\ chkFn = "hasEnoughCredits"
    /\ chkPc = "idle"
    /\ chkRequired = 0
    /\ chkBody = NoBody
    /\ chkFailure = "none"
    /\ chkResult = Pending

----------------------------------------------------------------------------
(* Specifications *)

Init == InitRank /\ InitNetIdle /\ InitChat /\ InitOps /\ InitAuth /\ InitErr
        /\ InitChk

Next ==
    \/ RunEffect
    \/ Render
    \/ SetCurrentApp
    \/ SetCategory
    \/ SetTags
    \/ SetMaxItems

Spec == Init /\ [][Next]_vars

\* CrossSell under a parent that renders it once and never again.
NextStill ==
    \/ RunEffect
    \/ Render

SpecStill == Init /\ [][NextStill]_vars

InitNet == InitRankIdle /\ InitNetIdle /\ InitChat /\ InitOps /\ InitAuth /\ InitErr
        /\ InitChk

NextNet ==
    \/ Call
    \/ FetchRejects
    \/ FetchResolves
    \/ JsonRejects
    \/ JsonResolves

SpecNet == InitNet /\ [][NextNet]_vars

InitChatOnly == InitRankIdle /\ InitNetIdle /\ InitChat /\ InitOps /\ InitAuth /\ InitErr
        /\ InitChk

NextChat ==
    \/ Open
    \/ Close
    \/ Type
    \/ SendMessage
    \/ ChatFetchRejects
    \/ ChatFetchResolves
    \/ ChatJsonRejects
    \/ ChatJsonResolves

\* A request that is in flight settles, and the continuation of sendMessage
\* is run then.
ChatFairness ==
    /\ WF_vars(ChatFetchRejects \/ ChatFetchResolves)
    /\ WF_vars(ChatJsonRejects \/ ChatJsonResolves)

SpecChat == InitChatOnly /\ [][NextChat]_vars /\ ChatFairness

NextOps ==
    \/ OpsReportError
    \/ OpsOnError
    \/ OpsOnUnhandledRejection
    \/ OpsLogSettles
    \/ OpsTicketFetchRejects
    \/ OpsTicketFetchResolves
    \/ OpsTicketJsonSettles

SpecOps == InitChatOnly /\ [][NextOps]_vars

NextAuth ==
    \E a \in AppIds :
        \/ AuthCall(a)
        \/ AuthSelect(a)
        \/ AuthUpsert(a)

SpecAuth == InitChatOnly /\ [][NextAuth]_vars

NextErr ==
    \/ ErrReport
    \/ ErrTicketFetchRejects
    \/ ErrTicketFetchResolves
    \/ ErrJsonSettles
    \/ ErrLogFetchRejects
    \/ ErrLogFetchResolves

SpecErr == InitChatOnly /\ [][NextErr]_vars

NextChk ==
    \/ ChkCall
    \/ ChkFetchRejects
    \/ ChkFetchResolves
    \/ ChkJsonSettles

SpecChk == InitChatOnly /\ [][NextChk]_vars

----------------------------------------------------------------------------
(* Properties of the ranking *)

\* The effect has run with the current props.
Ran == ~EffectPending

Ids(s) == [i \in DOMAIN s |-> s[i].id]

\* The catalog products the exclusion filter keeps.
Candidates == {catalog[i] : i \in {j \in DOMAIN catalog : catalog[j].id # currentApp}}

CatalogIndex(id) == CHOOSE i \in DOMAIN catalog : catalog[i].id = id

CatalogProduct(id) == catalog[CatalogIndex(id)]

\* The score the specification gives a product under the current request.
ClaimedScore(p) ==
    (IF category # Undefined /\ category = p.category THEN 3 ELSE 0)
    + 2 * Cardinality({i \in DOMAIN tags :
                          \E j \in DOMAIN p.tags : p.tags[j] = tags[i]})
    + (IF "isNew" \in DOMAIN p /\ p.isNew THEN 1 ELSE 0)
    + (IF "rating" \in DOMAIN p /\ p.rating >= 48 THEN 1 ELSE 0)

ScoreIn(list, id) == list[CHOOSE i \in DOMAIN list : list[i].id = id].score

\* C1: the result of the ranking has at most max(0, maxItems) entries, for
\* every catalog and request, negative maxItems included.
ResultWithinMaxItems ==
    Ran => Len(recommendations) <= (IF maxItems < 0 THEN 0 ELSE maxItems)

\* C2: every product the exclusion filter keeps is scored, and its score is
\* 3 for a present and equal category, plus 2 for each occurrence of a
\* requested tag the product has, plus 1 for isNew, plus 1 for a rating of
\* at least 4.8, and nothing else.
ScoreIsSumOfBonuses ==
    Ran => /\ {sorted[i].id : i \in DOMAIN sorted} = {p.id : p \in Candidates}
           /\ Len(sorted) = Cardinality(Candidates)
           /\ \A i \in DOMAIN sorted :
                 sorted[i].score = ClaimedScore(CatalogProduct(sorted[i].id))

\* A product with all four bonuses, one tag of it requested twice.
ScoreWitness ==
    /\ Ran
    /\ category = "ai"
    /\ tags = <<"chat", "chat">>
    /\ \E i \in DOMAIN sorted : sorted[i].id = "javari" /\ sorted[i].score = 9

\* C3: with currentApp set no product of the result has that id; with
\* currentApp absent the filter removes no product.
ExcludedNeverReturned ==
    Ran => /\ currentApp # Undefined =>
                 \A i \in DOMAIN recommendations :
                     recommendations[i].id # currentApp
           /\ currentApp = Undefined =>
                 /\ Len(sorted) = Len(catalog)
                 /\ \A i \in DOMAIN catalog :
                       \E j \in DOMAIN sorted : sorted[j].id = catalog[i].id

\* The excluded product is in the catalog and would have ranked first.
ExclusionWitness ==
    /\ Ran
    /\ catalog = PRODUCTS
    /\ currentApp = "javari"
    /\ category = "ai"
    /\ tags = <<"chat">>
    /\ maxItems = 3
    /\ Len(recommendations) = 3

\* C4: two products of the result with equal score are in the order they
\* have in the catalog.
TiesKeepCatalogOrder ==
    Ran => \A i, j \in DOMAIN recommendations :
               (i < j /\ recommendations[i].score = recommendations[j].score)
                  => CatalogIndex(recommendations[i].id)
                        < CatalogIndex(recommendations[j].id)

\* A result with a tie behind a product of higher score.
TieWitness ==
    /\ Ran
    /\ Len(recommendations) = 3
    /\ recommendations[1].score > recommendations[2].score
    /\ recommendations[2].score = recommendations[3].score
    /\ CatalogIndex(recommendations[1].id) > CatalogIndex(recommendations[2].id)

\* C5: the result is in non-increasing score order, and no candidate left
\* out of it has a higher score than a product in it.
ResultIsTopOfOrder ==
    Ran => /\ \A i, j \in DOMAIN recommendations :
                 i < j => recommendations[i].score >= recommendations[j].score
           /\ \A p \in Candidates :
                 (\A i \in DOMAIN recommendations : recommendations[i].id # p.id)
                    => \A i \in DOMAIN recommendations :
                           ClaimedScore(p) <= recommendations[i].score

\* A result of two different scores that leaves out a candidate the catalog
\* lists before both.
TopWitness ==
    /\ Ran
    /\ Len(recommendations) = 2
    /\ recommendations[1].score > recommendations[2].score
    /\ \E p \in Candidates :
          /\ \A i \in DOMAIN recommendations : recommendations[i].id # p.id
          /\ CatalogIndex(p.id) < CatalogIndex(recommendations[1].id)
          /\ CatalogIndex(p.id) < CatalogIndex(recommendations[2].id)

\* C6: for maxItems >= 0 the result has exactly min(maxItems, number of
\* catalog products whose id differs from excludeId) entries.
ResultLengthIsMin ==
    (Ran /\ maxItems >= 0) =>
        LET n == Cardinality({i \in DOMAIN catalog : catalog[i].id # currentApp})
        IN  Len(recommendations) = (IF maxItems < n THEN maxItems ELSE n)

\* A product of score 0 is returned.
ZeroScoreReturnedWitness ==
    /\ Ran
    /\ maxItems = 2
    /\ Len(recommendations) = 2
    /\ recommendations[1].score > 0
    /\ recommendations[2].score = 0
    /\ Len(sorted) > 2

ScenarioCatalog == <<ProductA, ProductB, ProductC>>

ScenarioTwo ==
    /\ Ran
    /\ catalog = ScenarioCatalog
    /\ currentApp = Undefined
    /\ category = Undefined
    /\ tags = <<"chat">>
    /\ maxItems = 1

\* C7 as stated: for the catalog [A, B, C] and the request
\* {tags: ["chat"], maxItems: 1} the ranking returns [C]; C scores 2, A and
\* B score 0.
ScenarioTwoReturnsC ==
    ScenarioTwo => /\ Ids(recommendations) = <<"C">>
                   /\ ScoreIn(sorted, "C") = 2
                   /\ ScoreIn(sorted, "A") = 0
                   /\ ScoreIn(sorted, "B") = 0

\* C7 as amended: the ranking returns [A]; A scores 2 (isNew, rating 4.9),
\* B scores 1 (rating 4.8), C scores 2 (the tag), and A precedes C as in the
\* catalog.
ScenarioTwoReturnsA ==
    ScenarioTwo => /\ Ids(recommendations) = <<"A">>
                   /\ ScoreIn(sorted, "A") = 2
                   /\ ScoreIn(sorted, "B") = 1
                   /\ ScoreIn(sorted, "C") = 2
                   /\ Ids(sorted) = <<"A", "C", "B">>

ScenarioTwoWitness == ScenarioTwo /\ Len(recommendations) = 1

\* The request the effect last ran with.
LastCategory == deps[2]
LastTags == deps[3]

\* The category was added to a request that had none.
CategoryAdded == LastCategory = Undefined /\ category # Undefined /\ LastTags = tags

\* One tag was appended to the requested tags.
TagAppended ==
    /\ LastCategory = category
    /\ Len(tags) = Len(LastTags) + 1
    /\ SubSeq(tags, 1, Len(LastTags)) = LastTags

AddedTag == tags[Len(tags)]

\* C9: when the effect runs again after a matching category was added or a
\* tag the product has was appended, no product's score is lower than in
\* the previous run; a category or first tag the product does not match
\* leaves its score as it was.
ScoreMonotoneInRequest ==
    [][(deps # <<>> /\ EffectPending /\ ~EffectPending') =>
          \A i \in DOMAIN sorted' :
             LET p == sorted'[i]
                 before == ScoreIn(sorted, p.id)
             IN  /\ (CategoryAdded /\ category = p.category) => p.score >= before
                 /\ (TagAppended /\ AddedTag \in Range(p.tags)) => p.score >= before
                 /\ (CategoryAdded /\ category # p.category) => p.score = before
                 /\ (TagAppended /\ LastTags = <<>> /\ AddedTag \notin Range(p.tags))
                       => p.score = before]_vars

\* A matching tag has been appended to a request whose category matches,
\* and the effect is about to run again.
MonotoneWitness ==
    /\ deps # <<>>
    /\ EffectPending
    /\ TagAppended
    /\ category = "ai"
    /\ LastTags = <<"chat">>
    /\ AddedTag = "chat"
    /\ \E i \in DOMAIN sorted : sorted[i].id = "javari" /\ sorted[i].score = 7

\* C10: an empty catalog gives an empty result for every request, and
\* maxItems = 0 gives an empty result for every catalog.
EmptySafety ==
    Ran => /\ catalog = <<>> => recommendations = <<>>
           /\ maxItems = 0 => recommendations = <<>>

\* The effect ran over a catalog of several products with maxItems = 0.
EmptyWitness ==
    /\ Ran
    /\ maxItems = 0
    /\ Len(sorted) >= 2
    /\ recommendations = <<>>

RerunOfSameRequest ==
    /\ deps # <<>>
    /\ deps = CurrentDeps
    /\ EffectPending

EffectRunsOnce ==
    [][deps # <<>> => ~(EffectPending /\ ~EffectPending')]_vars

----------------------------------------------------------------------------
(* Properties of the network wrappers *)

\* C8: every network wrapper catches a transport failure and a parse
\* failure: its promise never rejects, and after either failure it resolves
\* to a value that carries an error field.
WrapperNeverRejects ==
    netpc = "settled" =>
        /\ result.state = "fulfilled"
        /\ failure \in {"transport", "parse"} => Has(result.value, "error")

----------------------------------------------------------------------------
(* Properties of JavariChat *)

\* C13: at most one chat request is in flight, and sendMessage invoked
\* while isLoading is true or with blank input issues no fetch and leaves
\* messages, input and isLoading as they are.
SendGuardHolds ==
    /\ [](Len(requests) <= 1)
    /\ [][(sendTick' # sendTick /\ (isLoading \/ Trim(input) = ""))
             => UNCHANGED <<messages, input, isLoading, requests>>]_vars

\* A request is in flight and the input field holds a text to send.
SendWhileLoadingWitness ==
    /\ isLoading
    /\ Trim(input) = "hi"
    /\ Len(requests) = 1
    /\ Len(messages) = 4

IsPrefix(s, t) == Len(s) <= Len(t) /\ SubSeq(t, 1, Len(s)) = s

TranscriptShape ==
    /\ messages[1] = [role |-> "assistant", content |-> Greeting]
    /\ \A i \in DOMAIN messages :
          messages[i].role = (IF i % 2 = 1 THEN "assistant" ELSE "user")
    /\ \A i \in DOMAIN messages :
          (i > 1 /\ i % 2 = 1) =>
              messages[i].content \in {"hello", CouldNotProcess, TroubleConnecting}
    /\ requests = <<>> => Len(messages) % 2 = 1
    /\ requests # <<>> => Len(messages) % 2 = 0

\* C17: the transcript starts with the greeting and its roles alternate
\* assistant, user, assistant, ...; messages are only appended; a user
\* message whose request has settled is followed by one assistant message
\* (reply or one of the two fallbacks); opening or closing the panel leaves
\* the transcript as it is.
TranscriptAlternates ==
    /\ []TranscriptShape
    /\ [][/\ IsPrefix(messages, messages')
          /\ Len(messages') <= Len(messages) + 1
          /\ isOpen' # isOpen => messages' = messages]_vars

\* Two exchanges, one answered by each fallback, and the panel closed.
TranscriptWitness ==
    /\ Len(messages) = 5
    /\ messages[3].content = CouldNotProcess
    /\ messages[5].content = TroubleConnecting
    /\ ~isOpen

\* C18: an accepted sendMessage whose request settles sets isLoading back
\* to false, however the request settles.
LoadingEnds == isLoading ~> ~isLoading

\* The request of the last message failed to parse and has settled.
LoadingEndedWitness ==
    /\ ~isLoading
    /\ requests = <<>>
    /\ Len(messages) = 3
    /\ messages[3].content = TroubleConnecting

----------------------------------------------------------------------------
(* Properties of reportError of central-ops *)

TicketPosted == \E i \in DOMAIN opsRequests : opsRequests[i].endpoint = "/tickets"

\* C14: reportError logs an 'error' activity first and then creates a ticket
\* if and only if autoTicket is not false and severity is 'high' or
\* 'critical', with priority 'urgent' for 'critical' and 'high' for 'high'.
AutoTicketRule ==
    /\ opsPc # "idle" => opsRequests[1] = ActivityRequest
    /\ opsPc = "done" =>
          /\ TicketPosted <=>
                (opsAutoTicket # "false" /\ opsSeverity \in {"high", "critical"})
          /\ TicketPosted =>
                /\ Len(opsRequests) = 2
                /\ opsRequests[2].priority =
                      (IF opsSeverity = "critical" THEN "urgent" ELSE "high")

----------------------------------------------------------------------------
(* Properties of updateUserProfile *)

AllCallsCompleted == \A a \in AppIds : authPc[a] = "idle"

\* C16: once all updateUserProfile(userId, {}) calls of clients with
\* different APP_IDs have completed, apps_used of the stored profile holds
\* the APP_ID of every caller, none twice.
NoAdditionLost ==
    AllCallsCompleted =>
        /\ \A a \in AppIds : authCalls[a] > 0 => a \in Range(profileApps)
        /\ \A i, j \in DOMAIN profileApps :
              profileApps[i] = profileApps[j] => i = j

----------------------------------------------------------------------------
(* Properties of reportError of error-handler *)

ErrPosted(endpoint) ==
    \E i \in DOMAIN errRequests : errRequests[i].endpoint = endpoint

\* C19: reportError never rejects; the ticket is posted first and the
\* activity log second; it resolves to the ticketId of the tickets endpoint
\* only when the ticket POST, the parsing of its body and the activity-log
\* POST all completed, and to null when any step fails; when the ticket POST
\* fails no activity log is posted.
ReportNeverRejects ==
    /\ errResult.state # "rejected"
    /\ Len(errRequests) <= 2
    /\ Len(errRequests) >= 1 => errRequests[1].endpoint = "/tickets"
    /\ Len(errRequests) = 2 => errRequests[2].endpoint = "/activity/log"
    /\ errPc = "done" =>
          /\ errResult.state = "fulfilled"
          /\ errCaught # "none" => errResult.value = JsNull
          /\ errResult.value # JsNull =>
                /\ errCaught = "none"
                /\ Len(errRequests) = 2
                /\ errBody.json
                /\ errResult.value = TicketIdOf(errBody.value)
                /\ errRequests[2].ticketId = errResult.value
          /\ errCaught \in {"build", "ticket", "json", "ticketId"} =>
                ~ErrPosted("/activity/log")

\* The activity log failed after the ticket was created: null, no rejection.
LogFailedWitness ==
    /\ errPc = "done"
    /\ errCaught = "log"
    /\ errResult = Fulfilled(JsNull)
    /\ Len(errRequests) = 2
    /\ errBody.json
    /\ TicketIdOf(errBody.value) = JsString("T-1")

----------------------------------------------------------------------------
(* Properties of hasEnoughCredits and hasActiveSubscription *)

\* The balance getCreditsBalance reported, an absent one counted as 0.
ReportedBalance ==
    IF chkFailure = "transport" THEN 0
    ELSE IF Has(chkBody.value, "balance") THEN chkBody.value.balance
    ELSE 0

\* C20: hasEnoughCredits resolves to true exactly when the balance reported
\* is at least required, an absent balance counted as 0; on a transport
\* failure of the balance fetch it resolves to false for required > 0 and to
\* true for required <= 0; hasActiveSubscription is falsy on a transport
\* failure of the subscription fetch.
ChecksFailClosed ==
    chkPc = "done" =>
        /\ chkFailure = "transport" => chkResult.state = "fulfilled"
        /\ (chkFn = "hasEnoughCredits" /\ chkResult.state = "fulfilled") =>
              /\ chkResult.value \in {JsBool(TRUE), JsBool(FALSE)}
              /\ chkResult.value = JsBool(TRUE) <=> ReportedBalance >= chkRequired
              /\ chkFailure = "transport" =>
                    /\ chkRequired > 0 => chkResult.value = JsBool(FALSE)
                    /\ chkRequired <= 0 => chkResult.value = JsBool(TRUE)
        /\ (chkFn = "hasActiveSubscription" /\ chkFailure = "transport") =>
              ~Truthy(chkResult.value)

\* The balance fetch failed and credits were required: refused.
FailClosedWitness ==
    /\ chkPc = "done"
    /\ chkFn = "hasEnoughCredits"
    /\ chkFailure = "transport"
    /\ chkRequired = 1
    /\ chkResult = Fulfilled(JsBool(FALSE))

====
